---- MODULE Spec2Model ----
(***************************************************************************)
(* Model of generate_rust.py: the generator that reads the dataclasses and *)
(* enums of _vulkan_object.py and emits Rust declarations.                 *)
(*                                                                         *)
(* Representation.  A Python AST node is a record with a "kind" field.     *)
(* A Rust type string is the sequence of its tokens, so that               *)
(* "Option<Box<Handle>>" is <<"Option","<","Box","<","Handle",">",">">>    *)
(* and an f-string is a concatenation of token sequences.  Field names and *)
(* enum variant names are sequences of one-character strings, because      *)
(* to_snake_case and str.title work on characters.  Class names are plain  *)
(* strings: the generator only copies and compares them.                   *)
(***************************************************************************)
EXTENDS Naturals, Sequences, FiniteSets

VARIABLES pc, node, class_name, field_name, result,
          source, dataclasses, enums, rust_code, rs_file

vars == <<pc, node, class_name, field_name, result,
          source, dataclasses, enums, rust_code, rs_file>>

parseVars == <<node, class_name, field_name, result>>
mainVars == <<source, dataclasses, enums, rust_code, rs_file>>

(***************************************************************************)
(* Bounds of the model.                                                    *)
(***************************************************************************)
MaxDepth == 2
MaxClasses == 2
MaxFields == 3
MaxVariants == 3

SeqUpTo(S, n) == UNION { [1..k -> S] : k \in 0..n }

(***************************************************************************)
(* Field names that the tables and the inputs use, spelled by character.   *)
(***************************************************************************)
fn_aliases == <<"a","l","i","a","s","e","s">>
fn_queues == <<"q","u","e","u","e","s">>
fn_stages == <<"s","t","a","g","e","s">>
fn_accesses == <<"a","c","c","e","s","s","e","s">>
fn_headerVersion == <<"h","e","a","d","e","r","V","e","r","s","i","o","n">>
fn_alias == <<"a","l","i","a","s">>
fn_value == <<"v","a","l","u","e">>
fn_parent == <<"p","a","r","e","n","t">>
fn_name == <<"n","a","m","e">>
fn_stageMask == <<"s","t","a","g","e","M","a","s","k">>
fn_type == <<"t","y","p","e">>
fn_Type == <<"T","y","p","e">>
fn_type_ == <<"t","y","p","e","_">>
fn_const == <<"c","o","n","s","t">>

(***************************************************************************)
(* Rust type strings of the tables.                                        *)
(***************************************************************************)
OptVecString == <<"Option","<","Vec","<","String",">",">">>
OptVecFlag == <<"Option","<","Vec","<","Flag",">",">">>

FIELD_TYPE_OVERRIDES ==
    [p \in { <<"Flag", fn_aliases>>, <<"SyncSupport", fn_queues>>,
             <<"SyncSupport", fn_stages>>, <<"SyncEquivalent", fn_stages>>,
             <<"SyncEquivalent", fn_accesses>>,
             <<"VulkanObject", fn_headerVersion>>, <<"Param", fn_alias>>,
             <<"Constant", fn_value>> } |->
        CASE p = <<"Flag", fn_aliases>> -> OptVecString
          [] p = <<"SyncSupport", fn_queues>> -> OptVecString
          [] p = <<"SyncSupport", fn_stages>> -> OptVecFlag
          [] p = <<"SyncEquivalent", fn_stages>> -> OptVecFlag
          [] p = <<"SyncEquivalent", fn_accesses>> -> OptVecFlag
          [] p = <<"VulkanObject", fn_headerVersion>> -> <<"String">>
          [] p = <<"Param", fn_alias>> -> <<"Option","<","String",">">>
          [] p = <<"Constant", fn_value>> -> <<"ConstantValue">>]

BOXED_FIELDS == { <<"Handle", fn_parent>> }

INT_TYPE_OVERRIDES ==
    [p \in { <<"EnumField", fn_value>>, <<"Flag", fn_value>> } |->
        IF p = <<"EnumField", fn_value>> THEN <<"i64">> ELSE <<"u64">>]

(***************************************************************************)
(* AST nodes of a type annotation.                                         *)
(***************************************************************************)
Name(id) == [kind |-> "Name", id |-> id]
ConstNone == [kind |-> "Constant", vtype |-> "None", value |-> "None"]
ConstStr(s) == [kind |-> "Constant", vtype |-> "str", value |-> s]
ConstNum == [kind |-> "Constant", vtype |-> "int", value |-> "0"]
Subscript(v, s) == [kind |-> "Subscript", value |-> v, slice |-> s]
Tuple2(k, v) == [kind |-> "Tuple", elts |-> <<k, v>>]
BinOp(l, op, r) == [kind |-> "BinOp", left |-> l, op |-> op, right |-> r]

(***************************************************************************)
(* parse_type, lines 35-88.  The helpers below are the branches of the     *)
(* function, in the order of the code.                                     *)
(***************************************************************************)
\* lines 44-54: a bare name
ParseName(name, cn, fn) ==
    IF name = "str" THEN <<"String">>
    ELSE IF name = "bool" THEN <<"bool">>
    ELSE IF name = "int" THEN
        IF <<cn, fn>> \in DOMAIN INT_TYPE_OVERRIDES
        THEN INT_TYPE_OVERRIDES[<<cn, fn>>] ELSE <<"u32">>
    ELSE IF name = "float" THEN <<"f64">>
    ELSE <<name>>

\* line 57: the base of a subscript; str() of a node that is no Name is the
\* repr of the object, which is neither "list" nor "dict"
SubscriptBase(n) ==
    IF n.value.kind = "Name" THEN n.value.id ELSE "<ast object>"

\* ParseUnion without the BOXED_FIELDS test of line 73: every optional is boxed
ParseUnionAlwaysBox(left, right, cn, fn) ==
    IF right = <<"None">> THEN
        IF left = <<"int">> /\ <<cn, fn>> = <<"Constant", fn_value>>
        THEN <<"ConstantValue">>
        ELSE <<"Option", "<", "Box", "<">> \o left \o <<">", ">">>
    ELSE IF left = <<"int">> /\ right = <<"float">> THEN <<"ConstantValue">>
    ELSE IF left = <<"str">> /\ right = <<"None">>
        THEN <<"Option", "<", "String", ">">>
    ELSE <<"FALLTHROUGH">>

\* lines 70-79: the result of a binary union from the rendered alternatives;
\* <<"FALLTHROUGH">> stands for leaving the if-block without a return
ParseUnion(left, right, cn, fn) ==
    IF right = <<"None">> THEN
        IF left = <<"int">> /\ <<cn, fn>> = <<"Constant", fn_value>>
        THEN <<"ConstantValue">>
        ELSE IF <<cn, fn>> \in BOXED_FIELDS
        THEN <<"Option", "<", "Box", "<">> \o left \o <<">", ">">>
        ELSE <<"Option", "<">> \o left \o <<">">>
    ELSE IF left = <<"int">> /\ right = <<"float">> THEN <<"ConstantValue">>
    ELSE IF left = <<"str">> /\ right = <<"None">>
        THEN <<"Option", "<", "String", ">">>
    ELSE <<"FALLTHROUGH">>

\* lines 81-86: a string literal is a forward reference
ParseForwardRef(name, cn, fn) ==
    IF <<cn, fn>> \in BOXED_FIELDS
    THEN <<"Option", "<", "Box", "<", name, ">", ">">>
    ELSE <<name>>

RECURSIVE parse_type(_, _, _)
parse_type(n, cn, fn) ==
    IF <<cn, fn>> \in DOMAIN FIELD_TYPE_OVERRIDES
    THEN FIELD_TYPE_OVERRIDES[<<cn, fn>>]
    ELSE IF n.kind = "Constant" /\ n.vtype = "None" THEN <<"None">>
    ELSE IF n.kind = "Name" THEN ParseName(n.id, cn, fn)
    ELSE IF n.kind = "Subscript" /\ SubscriptBase(n) = "list"
        THEN <<"Vec", "<">> \o parse_type(n.slice, cn, fn) \o <<">">>
    ELSE IF n.kind = "Subscript" /\ SubscriptBase(n) = "dict"
            /\ n.slice.kind = "Tuple"
        THEN <<"IndexMap", "<">> \o parse_type(n.slice.elts[1], cn, fn)
             \o <<",">> \o parse_type(n.slice.elts[2], cn, fn) \o <<">">>
    ELSE IF n.kind = "BinOp" /\ n.op = "BitOr"
            /\ ParseUnion(parse_type(n.left, cn, fn),
                          parse_type(n.right, cn, fn), cn, fn)
               # <<"FALLTHROUGH">>
        THEN ParseUnion(parse_type(n.left, cn, fn),
                        parse_type(n.right, cn, fn), cn, fn)
    ELSE IF n.kind = "Constant" /\ n.vtype = "str"
        THEN ParseForwardRef(n.value, cn, fn)
    ELSE <<"UNKNOWN">>

(***************************************************************************)
(* Inputs of parse_type: annotations of nesting depth at most MaxDepth and *)
(* (class, field) pairs with each kind of table entry and with none.       *)
(***************************************************************************)
Atoms ==
    { Name("str"), Name("bool"), Name("int"), Name("float"), Name("Handle"),
      ConstNone, ConstStr("Handle"), ConstNum }

\* the right-hand alternatives of a union and the keys of a dict that the
\* inputs use; a | b | c parses as (a | b) | c, so the nesting is on the left
Rights == { ConstNone, Name("float"), Name("int"), Name("str") }
MapKeys == { Name("str") }

RECURSIVE AnnSet(_)
AnnSet(d) ==
    IF d = 0 THEN Atoms
    ELSE LET S == AnnSet(d - 1) IN
        S \cup { Subscript(Name(b), s) : b \in {"list", "dict", "Optional"}, s \in S }
          \cup { Subscript(Name("dict"), Tuple2(k, v)) : k \in MapKeys, v \in S }
          \cup { BinOp(l, op, r) : l \in S, op \in {"BitOr", "BitAnd"}, r \in Rights }

Pairs ==
    { <<"Constant", fn_value>>, <<"Flag", fn_aliases>>, <<"Handle", fn_parent>>,
      <<"Flag", fn_value>>, <<"EnumField", fn_value>>, <<"Member", fn_stageMask>> }

InitParse ==
    /\ pc = "parse"
    /\ node \in AnnSet(MaxDepth)
    /\ \E p \in Pairs : class_name = p[1] /\ field_name = p[2]
    /\ result = <<>>
    /\ source = <<>> /\ dataclasses = <<>> /\ enums = <<>>
    /\ rust_code = <<>> /\ rs_file = <<>>

ParseType ==
    /\ pc = "parse"
    /\ result' = parse_type(node, class_name, field_name)
    /\ pc' = "parsed"
    /\ UNCHANGED <<node, class_name, field_name, mainVars>>

NextParse == ParseType

SpecParse == InitParse /\ [][NextParse]_vars

(***************************************************************************)
(* Characters.  [a-z] and [A-Z] of the regular expression, str.lower,      *)
(* str.upper.  Every other character (the underscore, the space) is        *)
(* uncased.                                                                *)
(***************************************************************************)
LowerChars == <<"a","b","c","d","e","f","g","h","i","j","k","l","m",
                "n","o","p","q","r","s","t","u","v","w","x","y","z">>
UpperChars == <<"A","B","C","D","E","F","G","H","I","J","K","L","M",
                "N","O","P","Q","R","S","T","U","V","W","X","Y","Z">>

IsLower(c) == \E i \in DOMAIN LowerChars : LowerChars[i] = c
IsUpper(c) == \E i \in DOMAIN UpperChars : UpperChars[i] = c

ToLower(c) ==
    IF IsUpper(c)
    THEN LowerChars[CHOOSE i \in DOMAIN UpperChars : UpperChars[i] = c]
    ELSE c

ToUpper(c) ==
    IF IsLower(c)
    THEN UpperChars[CHOOSE i \in DOMAIN LowerChars : LowerChars[i] = c]
    ELSE c

\* str.lower
Lower(s) == [i \in DOMAIN s |-> ToLower(s[i])]

\* str.replace(old, new) for one-character old and new
Replace(s, old, new) == [i \in DOMAIN s |-> IF s[i] = old THEN new ELSE s[i]]

\* str.replace(old, "") for a one-character old
Remove(s, old) == SelectSeq(s, LAMBDA c : c # old)

\* re.sub(r"([a-z])([A-Z])", r"\1_\2", s) from position i: a match takes a
\* lowercase and an uppercase character, so no two matches overlap and every
\* lowercase-uppercase pair is a match
RECURSIVE ReSub(_, _)
ReSub(s, i) ==
    IF i > Len(s) THEN <<>>
    ELSE (IF i > 1 /\ IsLower(s[i - 1]) /\ IsUpper(s[i])
          THEN <<"_", s[i]>> ELSE <<s[i]>>) \o ReSub(s, i + 1)

\* lines 31-32
to_snake_case(name) == Lower(ReSub(name, 1))

\* str.title from position i: a cased character is written in uppercase
\* when the character before it is uncased, in lowercase otherwise
RECURSIVE TitleFrom(_, _, _)
TitleFrom(s, i, prevCased) ==
    IF i > Len(s) THEN <<>>
    ELSE IF IsLower(s[i]) \/ IsUpper(s[i])
        THEN <<IF prevCased THEN ToLower(s[i]) ELSE ToUpper(s[i])>>
             \o TitleFrom(s, i + 1, TRUE)
    ELSE <<s[i]>> \o TitleFrom(s, i + 1, FALSE)

Title(s) == TitleFrom(s, 1, FALSE)

RESERVED_KEYWORDS == { fn_type, <<"s","t","r","u","c","t">>, fn_const }

(***************************************************************************)
(* The class definitions of the source, as ast.walk yields them.           *)
(***************************************************************************)
Call(f) == [kind |-> "Call", func |-> f]
Target(id) == [kind |-> "Name", id |-> id]
AttrTarget == [kind |-> "Attribute"]
\* an assignment target = value; the value is an integer literal
Assign(t, v) ==
    [kind |-> "Assign", targets |-> <<t>>,
     value |-> [kind |-> "Constant", vtype |-> "int", value |-> v]]
AnnAssign(t, a) == [kind |-> "AnnAssign", target |-> t, annotation |-> a]
Pass == [kind |-> "Pass"]
ClassDef(n, d, b, body) ==
    [name |-> n, decorator_list |-> d, bases |-> b, body |-> body]

\* lines 99-106
is_dataclass(c) ==
    \E i \in DOMAIN c.decorator_list :
        LET d == c.decorator_list[i] IN
            \/ d.kind = "Name" /\ d.id = "dataclass"
            \/ d.kind = "Call" /\ d.func.kind = "Name" /\ d.func.id = "dataclass"

\* lines 107-109
is_enum(c) ==
    \E i \in DOMAIN c.bases : c.bases[i].kind = "Name" /\ c.bases[i].id = "Enum"

\* lines 112-116: the names of the assignments of an enum body, in order
EnumValues(body) ==
    LET a == SelectSeq(body, LAMBDA it : it.kind = "Assign")
    IN [i \in DOMAIN a |-> a[i].targets[1].id]

\* line 115: .id of a target that is no Name raises AttributeError
EnumRaises(c) ==
    is_enum(c) /\ \E i \in DOMAIN c.body :
        c.body[i].kind = "Assign" /\ c.body[i].targets[1].kind # "Name"

\* lines 119-126: the annotated fields of a dataclass body, in order
DataclassFields(cn, body) ==
    LET a == SelectSeq(body, LAMBDA it :
                 it.kind = "AnnAssign" /\ it.target.kind = "Name")
    IN [i \in DOMAIN a |->
           <<a[i].target.id, parse_type(a[i].annotation, cn, a[i].target.id)>>]

\* lines 91-129; the result is <<dataclasses, enums>>
extract_classes(src) ==
    LET e == SelectSeq(src, is_enum)
        d == SelectSeq(src, LAMBDA c : ~is_enum(c) /\ is_dataclass(c))
    IN << [i \in DOMAIN d |-> <<d[i].name, DataclassFields(d[i].name, d[i].body)>>],
          [i \in DOMAIN e |-> <<e[i].name, EnumValues(e[i].body)>>] >>

ExtractRaises(src) == \E i \in DOMAIN src : EnumRaises(src[i])

(***************************************************************************)
(* generate_rust.  The text it returns is its lines joined by newlines; a  *)
(* line is a record of its kind and of the values formatted into it.       *)
(***************************************************************************)
Text(t) == [kind |-> "text", text |-> t]
Blank == Text("")
Close == Text("}")
DeriveLine(derives) == [kind |-> "derive", derives |-> derives]
EnumOpen(n) == [kind |-> "enum", name |-> n]
StructOpen(n) == [kind |-> "struct", name |-> n]
VariantLine(rust_name, i) == [kind |-> "variant", name |-> rust_name, ordinal |-> i]
RenameLine(fn) == [kind |-> "rename", name |-> fn]
FieldLine(ident, type) == [kind |-> "field", ident |-> ident, type |-> type]

\* lines 134-139
Preamble ==
    << Text("use indexmap::IndexMap;"),
       Text("use serde::{Deserialize, Serialize};"),
       Text("use serde_repr::{Deserialize_repr, Serialize_repr};"),
       Blank >>

\* lines 146-184
order ==
    << "FeatureRequirement", "Extension", "Version", "Legacy", "Handle",
       "ExternSync", "Param", "CommandScope", "Command", "Member", "Struct",
       "EnumField", "Enum", "Flag", "Bitmask", "Flags", "ConstantValue",
       "Constant", "FormatComponent", "FormatPlane", "Format", "SyncSupport",
       "SyncEquivalent", "SyncStage", "SyncAccess", "SyncPipelineStage",
       "SyncPipeline", "SpirvEnables", "Spirv", "VideoRequiredCapabilities",
       "VideoFormat", "VideoProfileMember", "VideoProfiles", "VideoCodec",
       "VideoStdHeader", "VideoStd", "VulkanObject" >>

\* lines 186-187: a dict built from a list of pairs keeps the last value of a key
DictOf(pairs) ==
    [n \in { pairs[i][1] : i \in DOMAIN pairs } |->
        LET last == CHOOSE i \in DOMAIN pairs :
                        /\ pairs[i][1] = n
                        /\ \A j \in DOMAIN pairs : pairs[j][1] = n => j <= i
        IN pairs[last][2]]

\* lines 192-201
EmitConstantValue ==
    << DeriveLine(<<"Clone", "Debug", "Deserialize", "Serialize">>),
       Text("#[serde(untagged)]"),
       EnumOpen("ConstantValue"),
       Text("    Int(u64),"),
       Text("    Float(f64),"),
       Close, Blank >>

\* RustVariantName without the call of title
RustVariantNameNoTitle(v) == Remove(Replace(v, "_", " "), " ")

\* lines 211-213; the test of line 212 assigns the value it tests
RustVariantName(v) == Remove(Title(Replace(v, "_", " ")), " ")

\* EmitEnum with enumerate(values) counting from 0
EmitEnumFromZero(n, values) ==
    << DeriveLine(<<"Clone", "Copy", "Debug", "Deserialize_repr", "Eq",
                    "PartialEq", "Serialize_repr">>),
       Text("#[repr(u8)]"),
       EnumOpen(n) >>
    \o [i \in DOMAIN values |-> VariantLine(RustVariantName(values[i]), i - 1)]
    \o << Close, Blank >>

\* lines 204-216
EmitEnum(n, values) ==
    << DeriveLine(<<"Clone", "Copy", "Debug", "Deserialize_repr", "Eq",
                    "PartialEq", "Serialize_repr">>),
       Text("#[repr(u8)]"),
       EnumOpen(n) >>
    \o [i \in DOMAIN values |-> VariantLine(RustVariantName(values[i]), i)]
    \o << Close, Blank >>

\* NeedsRename without the RESERVED_KEYWORDS test
NeedsRenameCaseOnly(fn) == to_snake_case(fn) # fn

\* lines 226-228
NeedsRename(fn) == to_snake_case(fn) # fn \/ fn \in RESERVED_KEYWORDS

\* lines 225, 229-230: the identifier of the emitted field
SnakeName(fn) ==
    IF fn \in RESERVED_KEYWORDS THEN fn \o <<"_">> ELSE to_snake_case(fn)

\* lines 231-233
EmitField(f) ==
    (IF NeedsRename(f[1]) THEN <<RenameLine(f[1])>> ELSE <<>>)
    \o <<FieldLine(SnakeName(f[1]), f[2])>>

\* lines 224-233
RECURSIVE EmitFields(_)
EmitFields(fields) ==
    IF fields = <<>> THEN <<>>
    ELSE EmitField(Head(fields)) \o EmitFields(Tail(fields))

\* lines 218-235
EmitStruct(n, fields) ==
    << DeriveLine(IF n = "VideoStd"
                  THEN <<"Clone", "Debug", "Default", "Deserialize", "Serialize">>
                  ELSE <<"Clone", "Debug", "Deserialize", "Serialize">>),
       StructOpen(n) >>
    \o EmitFields(fields)
    \o << Close, Blank >>

\* lines 190-235: the lines of one name of the order
EmitName(n, dc_map, enum_map) ==
    IF n = "ConstantValue" THEN EmitConstantValue
    ELSE IF n \in DOMAIN enum_map THEN EmitEnum(n, enum_map[n])
    ELSE IF n \in DOMAIN dc_map THEN EmitStruct(n, dc_map[n])
    ELSE <<>>

\* lines 189-235
RECURSIVE EmitOrder(_, _, _)
EmitOrder(names, dc_map, enum_map) ==
    IF names = <<>> THEN <<>>
    ELSE EmitName(Head(names), dc_map, enum_map)
         \o EmitOrder(Tail(names), dc_map, enum_map)

RECURSIVE EmitAllStructs(_)
EmitAllStructs(dcs) ==
    IF dcs = <<>> THEN <<>>
    ELSE EmitStruct(Head(dcs)[1], Head(dcs)[2]) \o EmitAllStructs(Tail(dcs))

RECURSIVE EmitAllEnums(_)
EmitAllEnums(ens) ==
    IF ens = <<>> THEN <<>>
    ELSE EmitEnum(Head(ens)[1], Head(ens)[2]) \o EmitAllEnums(Tail(ens))

\* generate_rust emitting every extracted declaration in the order of extraction
generate_rust_source_order(dcs, ens) ==
    Preamble \o EmitAllEnums(ens) \o EmitConstantValue \o EmitAllStructs(dcs)

\* lines 132-237
generate_rust(dcs, ens) ==
    Preamble \o EmitOrder(order, DictOf(dcs), DictOf(ens))

(***************************************************************************)
(* main, lines 240-249: read and extract, generate, write.  The source is  *)
(* the sequence of class definitions of a file that parses.                *)
(***************************************************************************)
v_color == <<"c","o","l","o","r">>
v_depth_stencil == <<"d","e","p","t","h","_","s","t","e","n","c","i","l">>
v_depthStencil == <<"d","e","p","t","h","S","t","e","n","c","i","l">>
v_none == <<"n","o","n","e">>
v_NONE == <<"N","O","N","E">>
v_SUBTYPE_MAYBE == <<"S","U","B","T","Y","P","E","_","M","A","Y","B","E">>

SrcNames == { "Handle", "VideoStd", "Zed" }

EnumBodies ==
    { << Assign(Target(v_color), "1") >>,
      << Assign(Target(v_color), "2"), Pass, Assign(Target(v_depth_stencil), "1") >>,
      << Assign(AttrTarget, "1") >> }

RecordBodies ==
    { << AnnAssign(Target(fn_name), Name("str")) >>,
      << AnnAssign(Target(fn_name), ConstNum) >>,
      << AnnAssign(Target(fn_type), Subscript(Name("list"), ConstNum)),
         AnnAssign(AttrTarget, Name("int")) >>,
      << AnnAssign(Target(fn_parent), BinOp(ConstStr("Handle"), "BitOr", ConstNone)) >> }

SrcClasses ==
    { ClassDef(n, <<>>, <<Name("Enum")>>, b) : n \in SrcNames, b \in EnumBodies }
    \cup { ClassDef(n, <<Name("dataclass")>>, <<>>, b) :
               n \in SrcNames, b \in RecordBodies }
    \cup { ClassDef(n, <<Call(Name("dataclass"))>>, <<Name("Enum")>>,
                    << Assign(Target(v_none), "0") >>) : n \in SrcNames }
    \cup { ClassDef(n, <<>>, <<>>, << Pass >>) : n \in SrcNames }

IdleParse ==
    /\ node = ConstNone /\ class_name = "" /\ field_name = <<>> /\ result = <<>>

Init ==
    /\ pc = "start"
    /\ source \in SeqUpTo(SrcClasses, MaxClasses)
    /\ dataclasses = <<>> /\ enums = <<>>
    /\ rust_code = <<>> /\ rs_file = <<>>
    /\ IdleParse

\* line 246
ExtractClasses ==
    /\ pc = "start"
    /\ ~ExtractRaises(source)
    /\ dataclasses' = extract_classes(source)[1]
    /\ enums' = extract_classes(source)[2]
    /\ pc' = "extracted"
    /\ UNCHANGED <<source, rust_code, rs_file, parseVars>>

\* line 246, when extract_classes raises: main ends before line 248
ExtractFails ==
    /\ pc = "start"
    /\ ExtractRaises(source)
    /\ pc' = "failed"
    /\ UNCHANGED <<mainVars, parseVars>>

\* line 247
GenerateRust ==
    /\ pc = "extracted"
    /\ rust_code' = generate_rust(dataclasses, enums)
    /\ pc' = "generated"
    /\ UNCHANGED <<source, dataclasses, enums, rs_file, parseVars>>

\* lines 248-249
WriteFile ==
    /\ pc = "generated"
    /\ rs_file' = <<rust_code>>
    /\ pc' = "done"
    /\ UNCHANGED <<source, dataclasses, enums, rust_code, parseVars>>

Next == ExtractClasses \/ ExtractFails \/ GenerateRust \/ WriteFile

Spec == Init /\ [][Next]_vars

(***************************************************************************)
(* Extraction and generation for a source of one record or one enum, with  *)
(* the field names, annotations, variant names and assigned literals       *)
(* drawn freely.                                                           *)
(***************************************************************************)
FieldNames == { fn_type, fn_Type, fn_type_, fn_stageMask, fn_name, fn_const }
FieldAnnotations == { Name("str"), BinOp(Name("int"), "BitOr", ConstNone) }
Variants ==
    { v_color, v_depth_stencil, v_depthStencil, v_none, v_NONE, v_SUBTYPE_MAYBE }
Literals == { "0", "7" }

RecordSources ==
    { << ClassDef("Handle", <<Name("dataclass")>>, <<>>, b) >> :
          b \in SeqUpTo({ AnnAssign(Target(f), a) :
                              f \in FieldNames, a \in FieldAnnotations }, MaxFields) }

EnumSources ==
    { << ClassDef("ExternSync", <<>>, <<Name("Enum")>>, b) >> :
          b \in SeqUpTo({ Assign(Target(v), l) :
                              v \in Variants, l \in Literals }, MaxVariants) }

InitEmit ==
    /\ pc = "start"
    /\ source \in RecordSources \cup EnumSources
    /\ dataclasses = <<>> /\ enums = <<>>
    /\ rust_code = <<>> /\ rs_file = <<>>
    /\ IdleParse

NextEmit == ExtractClasses \/ GenerateRust

SpecEmit == InitEmit /\ [][NextEmit]_vars

(***************************************************************************)
(* Properties of parse_type, checked under SpecParse.                      *)
(***************************************************************************)
Pair == <<class_name, field_name>>

IntOrFloat ==
    { BinOp(Name("int"), "BitOr", Name("float")),
      BinOp(Name("float"), "BitOr", Name("int")) }

\* C1: for every (record, field) pair, with or without a table entry,
\* parse_type of the annotation int | float (and of float | int) is the
\* numeric union type "ConstantValue".
C1_IntFloatIsConstantValue ==
    (pc = "parsed" /\ node \in IntOrFloat) => result = <<"ConstantValue">>

IsForwardRef(n) ==
    \/ n.kind = "Name" /\ n.id \notin {"str", "bool", "int", "float"}
    \/ n.kind = "Constant" /\ n.vtype = "str"

IsForwardRefAnnotation(n) ==
    \/ IsForwardRef(n)
    \/ /\ n.kind = "BinOp" /\ n.op = "BitOr"
       /\ n.right = ConstNone /\ IsForwardRef(n.left)

CountToken(type, t) == Cardinality({ i \in DOMAIN type : type[i] = t })

\* C2: for a field of BOXED_FIELDS annotated with a forward reference (a bare
\* name or a string literal), with or without | None, the type parse_type
\* returns holds exactly one Box<...> and that Box sits inside an Option.
C2_ExactlyOneBoxInsideOption ==
    (pc = "parsed" /\ Pair \in BOXED_FIELDS /\ IsForwardRefAnnotation(node))
    => /\ CountToken(result, "Box") = 1
       /\ \E i \in DOMAIN result :
              /\ result[i] = "Box" /\ i >= 3
              /\ result[i - 2] = "Option" /\ result[i - 1] = "<"

IsOptionalAnnotation(n) ==
    n.kind = "BinOp" /\ n.op = "BitOr" /\ n.right = ConstNone

\* C8: for a pair with no FIELD_TYPE_OVERRIDES entry that is not in
\* BOXED_FIELDS, parse_type of T | None is "Option<" + parse_type(T) + ">".
C8_OptionalRule ==
    (/\ pc = "parsed" /\ IsOptionalAnnotation(node)
     /\ Pair \notin DOMAIN FIELD_TYPE_OVERRIDES /\ Pair \notin BOXED_FIELDS)
    => result = <<"Option", "<">>
                \o parse_type(node.left, class_name, field_name) \o <<">">>

\* stageMask: int | None gives Option<u32>
C8_Witness ==
    /\ pc = "parsed"
    /\ Pair = <<"Member", fn_stageMask>>
    /\ node = BinOp(Name("int"), "BitOr", ConstNone)
    /\ result = <<"Option", "<", "u32", ">">>

(***************************************************************************)
(* Properties of a run of main, checked under Spec.                        *)
(***************************************************************************)
ExtractedNames ==
    { dataclasses[i][1] : i \in DOMAIN dataclasses }
    \cup { enums[i][1] : i \in DOMAIN enums }

HasUnknownField ==
    \E i \in DOMAIN dataclasses : \E k \in DOMAIN dataclasses[i][2] :
        CountToken(dataclasses[i][2][k][2], "UNKNOWN") > 0

WrittenUnknown ==
    \E w \in DOMAIN rs_file : \E j \in DOMAIN rs_file[w] :
        rs_file[w][j].kind = "field" /\ CountToken(rs_file[w][j].type, "UNKNOWN") > 0

\* C3: when a field of an extracted record has the type UNKNOWN, at top
\* level or nested, the run aborts and writes no output file; no written
\* output file has UNKNOWN in a field type.
C3_UnknownAbortsRun ==
    /\ HasUnknownField => rs_file = <<>>
    /\ ~WrittenUnknown

MissingOrderEntry ==
    /\ pc \in {"extracted", "generated", "done"}
    /\ \E i \in DOMAIN order :
           order[i] # "ConstantValue" /\ order[i] \notin ExtractedNames

\* C4: when the order names a declaration other than ConstantValue that is
\* in neither extracted collection, the run is fatal and produces no output.
C4_MissingOrderEntryIsFatal ==
    MissingOrderEntry => rust_code = <<>> /\ rs_file = <<>>

BlockNames(lines) ==
    LET b == SelectSeq(lines, LAMBDA l : l.kind \in {"enum", "struct"})
    IN [i \in DOMAIN b |-> b[i].name]

Emitted == pc = "generated"

\* the index in rust_code of the k-th field line
FieldPos(k) ==
    CHOOSE j \in DOMAIN rust_code :
        /\ rust_code[j].kind = "field"
        /\ Cardinality({ i \in 1..j : rust_code[i].kind = "field" }) = k

HasRename(j) == j > 1 /\ rust_code[j - 1].kind = "rename"

SerializationKey(j) ==
    IF HasRename(j) THEN rust_code[j - 1].name ELSE rust_code[j].ident

FieldLineCount == Cardinality({ j \in DOMAIN rust_code : rust_code[j].kind = "field" })

\* C5: a field has a rename line before it exactly when its emitted
\* identifier differs from its declared name, and in both cases its
\* serialization key is the declared name.
C5_RenameIffIdentifierDiffers ==
    (Emitted /\ dataclasses # <<>>)
    => LET fields == dataclasses[1][2] IN
        /\ FieldLineCount = Len(fields)
        /\ \A j \in DOMAIN rust_code :
               rust_code[j].kind = "rename"
               => j < Len(rust_code) /\ rust_code[j + 1].kind = "field"
        /\ \A k \in DOMAIN fields :
               /\ HasRename(FieldPos(k)) <=> rust_code[FieldPos(k)].ident # fields[k][1]
               /\ SerializationKey(FieldPos(k)) = fields[k][1]

\* type: str is emitted as type_ with the rename "type"
C5_Witness ==
    /\ Emitted
    /\ dataclasses = << <<"Handle", << <<fn_type, <<"String">> >>, <<fn_name, <<"String">> >> >> >> >>
    /\ rust_code[FieldPos(1)].ident = fn_type_
    /\ HasRename(FieldPos(1)) /\ SerializationKey(FieldPos(1)) = fn_type
    /\ rust_code[FieldPos(2)].ident = fn_name
    /\ ~HasRename(FieldPos(2))

\* C10: no emitted field identifier is a reserved keyword, and two distinct
\* declared names of a record never get the same emitted identifier.
C10_NoReservedNoCollision ==
    (Emitted /\ dataclasses # <<>>)
    => LET fields == dataclasses[1][2] IN
        /\ \A k \in DOMAIN fields :
               rust_code[FieldPos(k)].ident \notin RESERVED_KEYWORDS
        /\ \A k1, k2 \in DOMAIN fields :
               fields[k1][1] # fields[k2][1]
               => rust_code[FieldPos(k1)].ident # rust_code[FieldPos(k2)].ident

VariantLines == SelectSeq(rust_code, LAMBDA l : l.kind = "variant")

\* C6: the variant lines of an emitted enum carry the ordinals 1, 2, ..., n
\* in that order, and the i-th line is the line of the i-th declared variant.
C6_OrdinalsFromOne ==
    (Emitted /\ enums # <<>>)
    => LET values == enums[1][2] IN
        /\ Len(VariantLines) = Len(values)
        /\ \A i \in DOMAIN values :
               /\ VariantLines[i].ordinal = i
               /\ VariantLines[i].name = RustVariantName(values[i])

C_Color == <<"C","o","l","o","r">>
C_DepthStencil == <<"D","e","p","t","h","S","t","e","n","c","i","l">>
C_Depthstencil == <<"D","e","p","t","h","s","t","e","n","c","i","l">>
C_None == <<"N","o","n","e">>

\* color = 7, depth_stencil = 0 gives Color = 1, DepthStencil = 2
C6_Witness ==
    /\ Emitted
    /\ source[1].body = << Assign(Target(v_color), "7"),
                           Assign(Target(v_depth_stencil), "0") >>
    /\ enums = << <<"ExternSync", <<v_color, v_depth_stencil>> >> >>
    /\ VariantLines = << VariantLine(C_Color, 1), VariantLine(C_DepthStencil, 2) >>

\* the capitalized-compound form that keeps the boundaries of both forms: a
\* letter starts a word at the start, after an underscore, and when it is an
\* uppercase letter after a lowercase one
RECURSIVE CapitalizedCompound(_, _)
CapitalizedCompound(v, i) ==
    IF i > Len(v) THEN <<>>
    ELSE (IF v[i] = "_" THEN <<>>
          ELSE IF i = 1 \/ v[i - 1] = "_" THEN <<ToUpper(v[i])>>
          ELSE IF IsUpper(v[i]) /\ IsLower(v[i - 1]) THEN <<v[i]>>
          ELSE <<ToLower(v[i])>>)
         \o CapitalizedCompound(v, i + 1)

\* C9 as stated: a variant in word_word or wordWord form is emitted in the
\* capitalized-compound form that keeps its word boundaries, and none is
\* emitted as None.
C9_KeepsWordBoundaries ==
    (Emitted /\ enums # <<>>)
    => \A i \in DOMAIN enums[1][2] :
           VariantLines[i].name = CapitalizedCompound(enums[1][2][i], 1)

\* the characters of v that are no underscore, each with the flag "first
\* character of v or preceded by an underscore"
WordLetters(v) ==
    SelectSeq([i \in DOMAIN v |-> <<v[i], i = 1 \/ v[i - 1] = "_">>],
              LAMBDA m : m[1] # "_")

\* C9 amended: the emitted variant name is the identifier without its
\* underscores, each underscore-separated word written with an uppercase
\* first letter and lowercase letters after it; an uppercase letter inside a
\* word is lowercased, so a wordWord boundary is not kept.
C9_UnderscoreWordsCapitalized ==
    (Emitted /\ enums # <<>>)
    => \A i \in DOMAIN enums[1][2] :
           LET w == WordLetters(enums[1][2][i])
               r == VariantLines[i].name
           IN /\ Len(r) = Len(w)
              /\ \A k \in DOMAIN w :
                     r[k] = IF w[k][2] THEN ToUpper(w[k][1]) ELSE ToLower(w[k][1])

\* depthStencil is emitted as Depthstencil, none as None
C9_Witness ==
    /\ Emitted
    /\ enums = << <<"ExternSync", <<v_depthStencil, v_none>> >> >>
    /\ VariantLines = << VariantLine(C_Depthstencil, 1), VariantLine(C_None, 2) >>

====
